---- MODULE Spec2Model ----
(***************************************************************************)
(* LearningHub maintenance scripts, modelled as state machines.            *)
(*                                                                         *)
(*   SpecEval   tools/evaluate_submissions.py : a submission file is       *)
(*              produced by a lesson page, edited on its way to the        *)
(*              teacher, then verified / analysed / reported.              *)
(*                                                                         *)
(* JSON values are records with a "kind" field; a payload object is a set  *)
(* of <<key, value>> pairs with unique keys.  json.dumps(sort_keys=True)   *)
(* is the token sequence Dumps; SHA-256 is an ideal hash (injective on the *)
(* serialisations of the model): the digest of s is the record             *)
(* [alg |-> "sha256", of |-> s].                                           *)
(***************************************************************************)
EXTENDS Integers, Sequences, FiniteSets, TLC

VARIABLES
    file,        \* the submission file on disk (a FileValue)
    orig,        \* the payload the lesson page exported into it
    vres,        \* last result of verify_submission on `file`
    ares,        \* last result of analyze_submission on `file`
    report,      \* lines printed by print_report for `ares`
    exitCode,    \* exit status of `evaluate_submissions.py --verify file`
    \* sync/learninghub_watcher.py and sync/sync_to_onecompiler.py
    folder,      \* the user's files under LEARNINGHUB_DIR: a dict path -> hash
    wstate,      \* the watcher's in-memory state["file_hashes"]
    stateFile,   \* sync/watcher_state.json
    pending,     \* sync/pending_changes.json: the "changes" list
    wpc,         \* the watcher process: off, sleeping, checking, stopped
    pidFile,     \* sync/watcher.pid exists
    owed,        \* changes made while the watcher ran and not yet appended
    quiet,       \* no tracked file has changed since the last poll that found changes
    events,      \* number of changes made to the folder so far
    config,      \* sync/onecompiler_config.json: path -> page status
    sync,        \* a run of sync_to_onecompiler.py --all
    \* the marker-guarded injectors and the dry-run tools under tools/
    page,        \* content of the lesson file: a sequence of HTML fragments
    loc,         \* where the lesson file lies below content/tic
    tool,        \* the script that is run on it
    runs,        \* the runs so far: tool, mode, status, files written
    backups,     \* backup copies on disk
    \* tools/convert_to_atomic.py
    lessonData,  \* parse_existing_lesson's result
    apc,         \* position inside convert_lesson / generate_atomic_lesson
    secIdx,      \* loop index i over content_sections
    qIdx,        \* q_idx
    atoms,       \* the atoms list
    atomsHtml,   \* the rendered atoms written to the output file
    \* tools/fix-all-lessons.py and tools/audit-lessons.py
    lesson,      \* content of the lesson file: a sequence of HTML fragments
    fixRuns,     \* number of times fix_lesson has processed the file
    fixes,       \* fixes_applied of the last fix_lesson
    audit,       \* the last audit_lesson of the file as it is now
    \* detect_changes of sync/learninghub_watcher.py, called on its own
    diffOld,     \* old_hashes
    diffNew,     \* new_hashes
    diffOut,     \* the dict it returns
    \* process_all_files of tools/add_breadcrumbs.py
    bcFiles,     \* the HTML files below content/tic, in the order of rglob
    bcDry,       \* dry_run
    bcPos,       \* number of files the loop has been through
    bcSummary,   \* the counters updated, skipped, errors; printed at the end
    bcTrace      \* what happened to each file the loop has been through

evalVars == <<file, orig, vres, ares, report, exitCode>>

watchVars == <<folder, wstate, stateFile, pending, wpc, pidFile, owed, quiet,
               events, config, sync>>

injectVars == <<page, loc, tool, runs, backups>>

atomVars == <<lessonData, apc, secIdx, qIdx, atoms, atomsHtml>>

fixVars == <<lesson, fixRuns, fixes, audit>>

diffVars == <<diffOld, diffNew, diffOut>>

crumbVars == <<bcFiles, bcDry, bcPos, bcSummary, bcTrace>>

vars == <<evalVars, watchVars, injectVars, atomVars, fixVars, diffVars, crumbVars>>

\* what each script leaves alone
notEval == <<watchVars, injectVars, atomVars, fixVars, diffVars, crumbVars>>

notWatch == <<evalVars, injectVars, atomVars, fixVars, diffVars, crumbVars>>

notInject == <<evalVars, watchVars, atomVars, fixVars, diffVars, crumbVars>>

notAtom == <<evalVars, watchVars, injectVars, fixVars, diffVars, crumbVars>>

notFix == <<evalVars, watchVars, injectVars, atomVars, diffVars, crumbVars>>

notDiff == <<evalVars, watchVars, injectVars, atomVars, fixVars, crumbVars>>

notCrumb == <<evalVars, watchVars, injectVars, atomVars, fixVars, diffVars>>

\* the files and processes of a script that is not run
WatchIdle ==
    /\ folder = <<>>
    /\ wstate = <<>>
    /\ stateFile = [exists |-> FALSE, file_hashes |-> <<>>]
    /\ pending = <<>>
    /\ wpc = "off"
    /\ pidFile = FALSE
    /\ owed = {}
    /\ quiet = FALSE
    /\ events = 0
    /\ config = [pages |-> <<>>, mappings |-> {}]
    /\ sync = [pc |-> "idle", queue |-> <<>>, files |-> {}]

InjectIdle ==
    /\ page = <<>>
    /\ loc = "none"
    /\ tool = "none"
    /\ runs = <<>>
    /\ backups = {}

AtomIdle ==
    /\ lessonData = [title |-> FALSE, sections |-> <<>>, questions |-> 0]
    /\ apc = "idle"
    /\ secIdx = 0
    /\ qIdx = 0
    /\ atoms = <<>>
    /\ atomsHtml = <<>>

FixIdle ==
    /\ lesson = <<>>
    /\ fixRuns = 0
    /\ fixes = <<>>
    /\ audit = [ran |-> FALSE, issues |-> {}]

DiffIdle ==
    /\ diffOld = <<>>
    /\ diffNew = <<>>
    /\ diffOut = [ran |-> FALSE, added |-> {}, modified |-> {}, deleted |-> {}]

CrumbIdle ==
    /\ bcFiles = <<>>
    /\ bcDry = FALSE
    /\ bcPos = 0
    /\ bcSummary = [printed |-> FALSE, updated |-> 0, skipped |-> 0, errors |-> 0]
    /\ bcTrace = <<>>

\* the scripts of the later sections are not run
OthersIdle == FixIdle /\ DiffIdle /\ CrumbIdle

(***************************************************************************)
(* JSON values of the model                                                *)
(***************************************************************************)

\* keys of a payload object, in the order sort_keys=True emits them
KeyOrder == <<"grading", "student">>

Keys == {KeyOrder[i] : i \in 1..Len(KeyOrder)}

Vals == {"0", "1"}

\* sets of <<key, value>> pairs in which no key occurs twice
ObjFields == {F \in SUBSET (Keys \X Vals) :
                 \A a \in F, b \in F : a[1] = b[1] => a = b}

AbsentPayload == [kind |-> "absent", fields |-> {}]

\* a payload is a JSON object or some other JSON value (here: a list)
Payloads == [kind : {"obj"}, fields : ObjFields] \cup {[kind |-> "arr", fields |-> {}]}

RECURSIVE DumpsFrom(_, _)
DumpsFrom(F, i) ==
    IF i > Len(KeyOrder) THEN <<>>
    ELSE LET k == KeyOrder[i]
             hit == {a \in F : a[1] = k}
         IN  IF hit = {} THEN DumpsFrom(F, i + 1)
             ELSE <<k, (CHOOSE a \in hit : TRUE)[2]>> \o DumpsFrom(F, i + 1)

\* json.dumps(data, sort_keys=True, ensure_ascii=False)
Dumps(p) ==
    IF p.kind = "arr" THEN <<"[", "]">>
    ELSE <<"{">> \o DumpsFrom(p.fields, 1) \o <<"}">>

\* hashlib.sha256(...).hexdigest()
Sha256(s) == [alg |-> "sha256", of |-> s]

calculate_checksum(p) == Sha256(Dumps(p))

\* security.get('checksum', '') when the key is missing
NoChecksum == [alg |-> "none", of |-> <<>>]

\* a checksum value that is the digest of nothing (a typo, another type)
JunkChecksum == [alg |-> "junk", of |-> <<>>]

Checksums == {calculate_checksum(p) : p \in Payloads} \cup {NoChecksum, JunkChecksum}

AbsentSecurity == [kind |-> "absent", checksum |-> NoChecksum]

\* "other": the security entry is not an object (a string, null, a list)
Securities == [kind : {"obj"}, checksum : Checksums]
              \cup {[kind |-> "other", checksum |-> NoChecksum]}

Words == {"payload", "security"}

NoFile == [kind |-> "missing", words |-> {}, payload |-> AbsentPayload,
           security |-> AbsentSecurity]

\* what open()/json.load can meet at the path:
\*   missing     no such file
\*   unreadable  a directory, no permission, bytes that are not UTF-8
\*   badjson     text that is not JSON
\*   scalar      JSON number / null / boolean
\*   string,list JSON string or list; `words` = which of 'payload',
\*               'security' the `in` operator finds in it
\*   dict        JSON object; payload / security absent or present
FileValues ==
    {[kind |-> k, words |-> {}, payload |-> AbsentPayload, security |-> AbsentSecurity] :
        k \in {"missing", "unreadable", "badjson", "scalar"}}
    \cup [kind : {"string", "list"}, words : SUBSET Words,
          payload : {AbsentPayload}, security : {AbsentSecurity}]
    \cup [kind : {"dict"}, words : {{}},
          payload : Payloads \cup {AbsentPayload},
          security : Securities \cup {AbsentSecurity}]

\* the {} returned by the except clauses
EmptyDict == [kind |-> "dict", words |-> {}, payload |-> AbsentPayload,
              security |-> AbsentSecurity]

(***************************************************************************)
(* evaluate_submissions.py                                                 *)
(***************************************************************************)

Return(valid, data, msg) ==
    [out |-> "return", exc |-> "none", valid |-> valid, data |-> data, msg |-> msg]

Raise(exc) ==
    [out |-> "raise", exc |-> exc, valid |-> FALSE, data |-> EmptyDict, msg |-> "none"]

\* the negation of `'payload' not in submission or 'security' not in submission`,
\* for the values on which `in` is defined
HasStructure(f) ==
    /\ f.kind \in {"string", "list", "dict"}
    /\ IF f.kind = "dict"
       THEN f.payload # AbsentPayload /\ f.security # AbsentSecurity
       ELSE Words \subseteq f.words

\* a mutated comparison: the checksum is read but never compared
ChecksumMatches_NoCompare(security, payload) == TRUE

\* expected_checksum = security.get('checksum', ''); calculated = ...;
\* not (expected_checksum != calculated_checksum)
ChecksumMatches(security, payload) ==
    security.checksum = calculate_checksum(payload)

\* the body of the try block of verify_submission
TryVerify(f) ==
    CASE f.kind = "missing"    -> Raise("FileNotFoundError")
      [] f.kind = "unreadable" -> Raise("OSError")
      [] f.kind = "badjson"    -> Raise("JSONDecodeError")
      [] f.kind = "scalar"     -> Raise("TypeError")
      [] OTHER ->
           IF ~HasStructure(f)
           THEN Return(FALSE, f, "Invalid structure")
           ELSE IF f.kind # "dict"
           THEN Raise("TypeError")             \* submission['payload']
           ELSE IF f.security.kind # "obj"
           THEN Raise("AttributeError")        \* security.get
           ELSE IF ~ChecksumMatches(f.security, f.payload)
           THEN Return(FALSE, f, "CHECKSUM MISMATCH")
           ELSE Return(TRUE, f, "OK")

\* the classes `except Exception` catches
ExceptionSubclasses ==
    {"JSONDecodeError", "FileNotFoundError", "OSError", "TypeError", "AttributeError"}

VResult(valid, data, msg, uncaught) ==
    [valid |-> valid, data |-> data, msg |-> msg, uncaught |-> uncaught]

\* mutated except clauses: the catch-all `except Exception` is missing
Handle_NoCatchAll(exc) ==
    CASE exc = "JSONDecodeError"   -> VResult(FALSE, EmptyDict, "Invalid JSON", FALSE)
      [] exc = "FileNotFoundError" -> VResult(FALSE, EmptyDict, "File not found", FALSE)
      [] OTHER                     -> VResult(FALSE, EmptyDict, "none", TRUE)

\* the except clauses of verify_submission, in their order
Handle(exc) ==
    CASE exc = "JSONDecodeError"     -> VResult(FALSE, EmptyDict, "Invalid JSON", FALSE)
      [] exc = "FileNotFoundError"   -> VResult(FALSE, EmptyDict, "File not found", FALSE)
      [] exc \in ExceptionSubclasses -> VResult(FALSE, EmptyDict, "Error", FALSE)
      [] OTHER                       -> VResult(FALSE, EmptyDict, "none", TRUE)

\* SubmissionEvaluator.verify_submission(filepath)
verify_submission(f) ==
    LET r == TryVerify(f)
    IN  IF r.out = "return" THEN VResult(r.valid, r.data, r.msg, FALSE)
        ELSE Handle(r.exc)

NoVResult == VResult(FALSE, EmptyDict, "not run", FALSE)

BaseKeys == {"filepath", "filename", "isValid", "verificationMessage", "analyzed_at"}

AnalysisKeys == {"student", "lesson", "grading", "summary", "meta", "atomicAnalysis",
                 "practiceAnalysis", "writtenEvaluations", "manualReviewRequired",
                 "overallConfidence"}

AResult(status, valid, msg, keys, err) ==
    [status |-> status, isValid |-> valid, verificationMessage |-> msg,
     keys |-> keys, error |-> err]

NoAResult == AResult("not run", FALSE, "none", {}, "none")

\* a mutated analyze_submission: the early return for an invalid file is gone
analyze_submission_NoEarlyReturn(f) ==
    LET v == verify_submission(f)
    IN  IF v.data.payload.kind # "obj"
        THEN AResult("crashed", v.valid, v.msg, BaseKeys \cup {"error"}, v.msg)
        ELSE AResult("returned", v.valid, v.msg,
                     BaseKeys \cup {"error"} \cup AnalysisKeys, v.msg)

\* SubmissionEvaluator.analyze_submission(filepath); "crashed": payload.get
\* raises AttributeError on a payload that is no object, and nothing catches it
analyze_submission(f) ==
    LET v == verify_submission(f)
    IN  IF ~v.valid
        THEN AResult("returned", FALSE, v.msg, BaseKeys \cup {"error"}, v.msg)
        ELSE IF f.payload.kind # "obj"
        THEN AResult("crashed", TRUE, v.msg, BaseKeys, "none")
        ELSE AResult("returned", TRUE, v.msg, BaseKeys \cup AnalysisKeys, "none")

AnalysisLines == <<"student", "lectie", "nota", "scor", "confidence", "atomic">>

\* a mutated report: the return after the cannot-analyze notice is missing
\* print_report: _print_rich_report when rich is importable, else
\* _print_basic_report (no written answers or incorrect items in the model's
\* payloads, so those loops print nothing)
print_report(result, rich) ==
    LET head == IF rich THEN <<"panel">> ELSE <<"file", "status", "message">>
    IN  [status |-> IF result.isValid THEN "VALID" ELSE "TAMPERED/INVALID",
         lines  |-> IF ~result.isValid
                    THEN head \o <<"cannot analyze">>
                    ELSE head \o AnalysisLines]

NoReport == [status |-> "none", lines |-> <<>>]

NoExit == [ran |-> "none", code |-> 1]

EvalIdle ==
    /\ file = NoFile
    /\ orig = AbsentPayload
    /\ vres = NoVResult
    /\ ares = NoAResult
    /\ report = NoReport
    /\ exitCode = NoExit

InitEval == EvalIdle /\ WatchIdle /\ InjectIdle /\ AtomIdle /\ OthersIdle

\* the lesson page exports a submission: the student's payload and the
\* checksum of that payload
Export(p) ==
    /\ p.kind = "obj"
    /\ file' = [kind |-> "dict", words |-> {}, payload |-> p,
                security |-> [kind |-> "obj", checksum |-> calculate_checksum(p)]]
    /\ orig' = p
    /\ vres' = NoVResult
    /\ ares' = NoAResult
    /\ report' = NoReport
    /\ exitCode' = NoExit
    /\ UNCHANGED notEval

\* the file is changed (or removed, or replaced) between export and evaluation
Edit(f) ==
    /\ orig # AbsentPayload
    /\ f # file
    /\ file' = f
    /\ vres' = NoVResult
    /\ ares' = NoAResult
    /\ report' = NoReport
    /\ exitCode' = NoExit
    /\ UNCHANGED <<orig, notEval>>

\* a call of verify_submission on the file
Verify ==
    /\ vres = NoVResult
    /\ vres' = verify_submission(file)
    /\ UNCHANGED <<file, orig, ares, report, exitCode, notEval>>

\* main(), single file or --batch: analyze_submission, then print_report
Analyze(rich) ==
    /\ ares = NoAResult
    /\ ares' = analyze_submission(file)
    /\ report' = IF ares'.status = "returned" THEN print_report(ares', rich) ELSE NoReport
    /\ UNCHANGED <<file, orig, vres, exitCode, notEval>>

\* main() with --verify; hasArg: a file name follows the flag
MainVerify(hasArg) ==
    /\ exitCode = NoExit
    /\ IF ~hasArg
       THEN /\ exitCode' = [ran |-> "usage", code |-> 1]
            /\ UNCHANGED vres
       ELSE /\ vres' = verify_submission(file)
            /\ exitCode' = [ran |-> "verify",
                            code |-> IF vres'.uncaught THEN 1
                                     ELSE IF vres'.valid THEN 0 ELSE 1]
    /\ UNCHANGED <<file, orig, ares, report, notEval>>

NextEval ==
    \/ \E p \in Payloads : Export(p)
    \/ \E f \in FileValues : Edit(f)
    \/ Verify
    \/ \E rich \in BOOLEAN : Analyze(rich)
    \/ \E hasArg \in BOOLEAN : MainVerify(hasArg)

SpecEval == InitEval /\ [][NextEval]_vars

(***************************************************************************)
(* Claims about evaluate_submissions.py (checked under SpecEval)           *)
(***************************************************************************)

\* what the documentation calls a valid submission, stated on the file alone
IsValidSubmission(f) ==
    /\ f.kind = "dict"
    /\ f.payload # AbsentPayload
    /\ f.security # AbsentSecurity
    /\ f.security.kind = "obj"
    /\ f.security.checksum = Sha256(Dumps(f.payload))

\* both checksums exist and differ
ChecksumsDiffer(f) ==
    /\ f.kind = "dict"
    /\ f.payload # AbsentPayload
    /\ f.security # AbsentSecurity
    /\ f.security.kind = "obj"
    /\ f.security.checksum # Sha256(Dumps(f.payload))

\* C1: verify_submission answers is_valid = True, with message "OK", exactly
\* when the file is JSON holding a payload entry and a security entry whose
\* checksum is the SHA-256 of the serialised payload; otherwise is_valid is
\* False, and when the two checksums differ the message is CHECKSUM MISMATCH.
C1_VerifyValidIffChecksumMatches ==
    vres # NoVResult =>
        /\ vres.valid <=> IsValidSubmission(file)
        /\ vres.valid => vres.msg = "OK"
        /\ ~vres.valid => vres.msg # "OK"
        /\ ChecksumsDiffer(file) => vres.msg = "CHECKSUM MISMATCH"

C1_Witness ==
    /\ vres # NoVResult
    /\ vres.valid
    /\ vres.msg = "OK"
    /\ file.payload = orig

\* the payload in the file is no longer the one the lesson page exported
PayloadChanged == orig # AbsentPayload /\ file.payload # orig

\* C2: a file whose payload was changed after the export is never reported
\* VALID by verify_submission or analyze_submission, whatever else in the
\* file was changed with it.
C2_TamperedPayloadNeverValid ==
    PayloadChanged =>
        /\ vres # NoVResult => ~vres.valid
        /\ ares # NoAResult => ~ares.isValid

InvalidReports ==
    {<<"panel", "cannot analyze">>, <<"file", "status", "message", "cannot analyze">>}

\* C3: when verify_submission reports the file invalid, analyze_submission
\* returns only filepath, filename, isValid = False, verificationMessage,
\* analyzed_at and error (none of the analysis entries), and the report
\* prints the status and the cannot-analyze notice and nothing else.
C3_InvalidNeverAnalysed ==
    (ares # NoAResult /\ ~verify_submission(file).valid) =>
        /\ ares.status = "returned"
        /\ ~ares.isValid
        /\ ares.keys = BaseKeys \cup {"error"}
        /\ ares.keys \cap AnalysisKeys = {}
        /\ ares.error = ares.verificationMessage
        /\ report.status = "TAMPERED/INVALID"
        /\ report.lines \in InvalidReports

C3_Witness ==
    /\ ares.status = "returned"
    /\ ~ares.isValid
    /\ PayloadChanged
    /\ ares.verificationMessage = "CHECKSUM MISMATCH"
    /\ report.lines \in InvalidReports

ReadFailureMessages == {"Invalid JSON", "File not found", "Error"}

\* C4: `--verify <file>` exits 0 exactly when the submission is valid and 1
\* otherwise; a missing file, malformed JSON or any other failure while
\* reading becomes the result (False, {}, message), never an uncaught
\* exception.
C4_VerifyExitStatus ==
    /\ exitCode.ran = "usage" => exitCode.code = 1
    /\ exitCode.ran = "verify" =>
        /\ exitCode.code \in {0, 1}
        /\ exitCode.code = 0 <=> IsValidSubmission(file)
        /\ ~vres.uncaught
        /\ file.kind \in {"missing", "unreadable", "badjson", "scalar"} =>
              /\ ~vres.valid
              /\ vres.data = EmptyDict
              /\ vres.msg \in ReadFailureMessages

C4_Witness ==
    /\ exitCode.ran = "verify"
    /\ exitCode.code = 1
    /\ file.kind = "unreadable"
    /\ vres.msg = "Error"

(***************************************************************************)
(* sync/learninghub_watcher.py and sync/sync_to_onecompiler.py             *)
(*                                                                         *)
(* A path is a record of its directory parts, its stem and its suffix; a   *)
(* Python dict is a function whose DOMAIN is the set of its keys; MD5 is   *)
(* an ideal hash of the file content.                                      *)
(***************************************************************************)

\* number of changes and signals the environment makes in one behaviour
MaxEvents == 2

WATCH_PATTERNS == {".html", ".css", ".js", ".json"}

IGNORE_DIRS == {"sync", ".git", "__pycache__", "node_modules"}

IndexHtml == [dirs |-> <<>>, stem |-> <<"index">>, suffix |-> ".html"]

AppJs == [dirs |-> <<"js">>, stem |-> <<"app">>, suffix |-> ".js"]

\* the files the user edits
UserPaths == {IndexHtml, AppJs}

\* what the user writes into a file
Contents == {[body |-> b, prepared |-> "no"] : b \in {"c1", "c2"}}

\* output_file = OUTPUT_DIR / file_path.replace('/', '_'): the parts of the
\* stem are the parts of the path, joined by '_'
OutputPath(f) ==
    [dirs |-> <<"sync", "onecompiler_ready">>, stem |-> f.dirs \o f.stem,
     suffix |-> f.suffix]

get_file_hash(content) == [alg |-> "md5", of |-> content]

Range(q) == {q[i] : i \in DOMAIN q}

\* a path that get_tracked_files keeps
IsTracked(f) ==
    /\ f.suffix \in WATCH_PATTERNS
    /\ Range(f.dirs) \cap IGNORE_DIRS = {}

get_tracked_files(dir) ==
    [f \in {g \in DOMAIN dir : IsTracked(g)} |-> get_file_hash(dir[f])]

StateJson == [dirs |-> <<"sync">>, stem |-> <<"watcher_state">>, suffix |-> ".json"]

PendingJson == [dirs |-> <<"sync">>, stem |-> <<"pending_changes">>, suffix |-> ".json"]

PidPath == [dirs |-> <<"sync">>, stem |-> <<"watcher">>, suffix |-> ".pid"]

\* the files of the watcher that exist under sync/
OwnFiles ==
    {f \in {StateJson, PendingJson, PidPath} :
        \/ f = StateJson /\ stateFile.exists
        \/ f = PendingJson /\ pending # <<>>
        \/ f = PidPath /\ pidFile}

\* all the files below LEARNINGHUB_DIR: the user's and the watcher's own
Disk ==
    [f \in DOMAIN folder \cup OwnFiles |->
        IF f \in DOMAIN folder THEN folder[f] ELSE [body |-> "own", prepared |-> "no"]]

EmptyState == [exists |-> FALSE, file_hashes |-> <<>>]

\* load_state()["file_hashes"]
load_state == IF stateFile.exists THEN stateFile.file_hashes ELSE <<>>

save_state(hashes) == [exists |-> TRUE, file_hashes |-> hashes]

detect_changes_NoDeleted(old_hashes, new_hashes) ==
    [added    |-> DOMAIN new_hashes \ DOMAIN old_hashes,
     modified |-> {f \in DOMAIN old_hashes \cap DOMAIN new_hashes :
                       old_hashes[f] # new_hashes[f]},
     deleted  |-> {}]

detect_changes_NoHashCompare(old_hashes, new_hashes) ==
    [added    |-> DOMAIN new_hashes \ DOMAIN old_hashes,
     modified |-> DOMAIN old_hashes \cap DOMAIN new_hashes,
     deleted  |-> DOMAIN old_hashes \ DOMAIN new_hashes]

detect_changes(old_hashes, new_hashes) ==
    [added    |-> DOMAIN new_hashes \ DOMAIN old_hashes,
     modified |-> {f \in DOMAIN old_hashes \cap DOMAIN new_hashes :
                       old_hashes[f] # new_hashes[f]},
     deleted  |-> DOMAIN old_hashes \ DOMAIN new_hashes]

\* any(changes.values())
AnyChanges(changes) ==
    changes.added # {} \/ changes.modified # {} \/ changes.deleted # {}

\* the orders in which a loop over the Python set S can visit it
Orders(S) ==
    {q \in [1..Cardinality(S) -> S] : \A i, j \in 1..Cardinality(S) : q[i] = q[j] => i = j}

Entries(q, type) == [i \in DOMAIN q |-> [file |-> q[i], type |-> type]]

\* the lists notify_changes can leave in pending_changes.json
notify_changes(changes) ==
    {pending \o Entries(a, "added") \o Entries(m, "modified") \o Entries(d, "deleted") :
        a \in Orders(changes.added), m \in Orders(changes.modified),
        d \in Orders(changes.deleted)}

Statuses == {"pending_create", "modified", "synced"}

\* the pages of onecompiler_config.json, written by hand
Configs ==
    {[pages |-> pg, mappings |-> {f \in DOMAIN pg : pg[f] = "synced"}] :
        pg \in {<<>>} \cup {[f \in {IndexHtml} |-> st] : st \in Statuses}}

SyncIdle == [pc |-> "idle", queue |-> <<>>, files |-> {}]

InitWatch ==
    /\ folder \in UNION {[D -> {[body |-> "c1", prepared |-> "no"]}] : D \in SUBSET UserPaths}
    /\ wstate = <<>>
    /\ stateFile = EmptyState
    /\ pending = <<>>
    /\ wpc = "off"
    /\ pidFile = FALSE
    /\ owed = {}
    /\ quiet = FALSE
    /\ events = 0
    /\ config \in Configs
    /\ sync = SyncIdle
    /\ EvalIdle /\ InjectIdle /\ AtomIdle /\ OthersIdle

Running == wpc \in {"sleeping", "checking", "saving"}

Without(dir, f) == [g \in DOMAIN dir \ {f} |-> dir[g]]

\* the user changes a tracked file; the change is owed to pending_changes.json
\* when the watcher runs
Change(dir, f, type) ==
    /\ events < MaxEvents
    /\ events' = events + 1
    /\ folder' = dir
    /\ owed' = IF Running THEN owed \cup {[file |-> f, type |-> type]} ELSE owed
    /\ quiet' = FALSE
    /\ UNCHANGED <<wstate, stateFile, pending, wpc, pidFile, config, sync, notWatch>>

AddFile(f, c) ==
    /\ f \notin DOMAIN folder
    /\ Change((f :> c) @@ folder, f, "added")

ModifyFile(f, c) ==
    /\ f \in DOMAIN folder
    /\ folder[f] # c
    /\ Change((f :> c) @@ folder, f, "modified")

DeleteFile(f) ==
    /\ f \in DOMAIN folder
    /\ Change(Without(folder, f), f, "deleted")

\* run_watcher up to the loop: PID file, load_state, first-run index
Start ==
    /\ wpc = "off"
    /\ pidFile' = TRUE
    /\ IF load_state = <<>>
       THEN /\ wstate' = get_tracked_files(Disk)
            /\ stateFile' = save_state(wstate')
       ELSE /\ wstate' = load_state
            /\ UNCHANGED stateFile
    /\ wpc' = "sleeping"
    /\ UNCHANGED <<folder, pending, owed, events, config, sync, quiet, notWatch>>

\* time.sleep(CHECK_INTERVAL) returns
WakeUp ==
    /\ wpc = "sleeping"
    /\ wpc' = "checking"
    /\ UNCHANGED <<folder, wstate, stateFile, pending, pidFile, owed, events,
                   config, sync, quiet, notWatch>>

\* one pass of the loop body: get_tracked_files, detect_changes,
\* notify_changes, state["file_hashes"] = current_hashes
Detect ==
    /\ wpc = "checking"
    /\ LET current_hashes == get_tracked_files(Disk)
           changes == detect_changes(wstate, current_hashes)
       IN  IF AnyChanges(changes)
           THEN /\ pending' \in notify_changes(changes)
                /\ wstate' = current_hashes
                /\ wpc' = "saving"
                /\ quiet' = TRUE
           ELSE /\ UNCHANGED <<pending, wstate, quiet>>
                /\ wpc' = "sleeping"
    /\ owed' = owed \ {pending'[i] : i \in Len(pending) + 1 .. Len(pending')}
    /\ UNCHANGED <<folder, stateFile, pidFile, events, config, sync, notWatch>>

\* save_state(state) at the end of the loop body
SaveState ==
    /\ wpc = "saving"
    /\ stateFile' = save_state(wstate)
    /\ wpc' = "sleeping"
    /\ UNCHANGED <<folder, wstate, pending, pidFile, owed, events, config, sync,
                   quiet, notWatch>>

\* Ctrl+C: the except clause of run_watcher
Interrupt ==
    /\ Running
    /\ events < MaxEvents
    /\ events' = events + 1
    /\ wpc' = "off"
    /\ pidFile' = FALSE
    /\ owed' = {}
    /\ UNCHANGED <<folder, wstate, stateFile, pending, config, sync, quiet, notWatch>>

\* --stop: SIGTERM to the process named in the PID file
stop_watcher ==
    /\ pidFile
    /\ events < MaxEvents
    /\ events' = events + 1
    /\ wpc' = "off"
    /\ pidFile' = FALSE
    /\ owed' = {}
    /\ UNCHANGED <<folder, wstate, stateFile, pending, config, sync, quiet, notWatch>>

\* --clear
clear_pending ==
    /\ pending # <<>>
    /\ pending' = <<>>
    /\ UNCHANGED <<folder, wstate, stateFile, wpc, pidFile, owed, events, config,
                   sync, quiet, notWatch>>

\* --reindex
Reindex ==
    /\ stateFile' = save_state(get_tracked_files(Disk))
    /\ stateFile' # stateFile
    /\ UNCHANGED <<folder, wstate, pending, wpc, pidFile, owed, events, config,
                   sync, quiet, notWatch>>

\* content = prepare_for_onecompiler(rewrite_links(content, ...))
process_file(content, mappings) ==
    [body |-> content.body, prepared |-> IF mappings = {} THEN "todo" ELSE "links"]

\* the files sync_all_pending takes from the configuration
pending_files(cfg) ==
    {f \in DOMAIN cfg.pages : cfg.pages[f] \in {"pending_create", "modified"}}

\* sync_to_onecompiler.py --all, up to the first prompt
SyncStart ==
    /\ sync.pc # "prompt"
    /\ \E q \in Orders(pending_files(config)) :
          sync' = [pc |-> IF q = <<>> THEN "done" ELSE "prompt", queue |-> q,
                   files |-> pending_files(config)]
    /\ sync' # sync
    /\ UNCHANGED <<folder, wstate, stateFile, pending, wpc, pidFile, owed, events,
                   config, quiet, notWatch>>

\* register_onecompiler_id followed by save_config
register_onecompiler_id(cfg, f) ==
    [cfg EXCEPT !.pages = (f :> "synced") @@ cfg.pages,
                !.mappings = cfg.mappings \cup {f}]

SyncStep_NoAdvance(new_id) ==
    /\ sync.pc = "prompt"
    /\ LET f == sync.queue[1]
       IN  folder' = IF f \in DOMAIN folder
                     THEN (OutputPath(f) :> process_file(folder[f], config.mappings))
                              @@ folder
                     ELSE folder
    /\ UNCHANGED <<sync, wstate, stateFile, pending, wpc, pidFile, owed, events,
                   config, quiet, notWatch>>

\* one pass of the loop of sync_all_pending: the user presses Enter,
\* sync_file, the user enters an id or nothing
SyncStep(new_id) ==
    /\ sync.pc = "prompt"
    /\ LET f == sync.queue[1]
       IN  /\ folder' = IF f \in DOMAIN folder
                        THEN (OutputPath(f) :> process_file(folder[f], config.mappings))
                                 @@ folder
                        ELSE folder
           /\ IF ~new_id
              THEN /\ UNCHANGED config
                   /\ sync' = [sync EXCEPT !.queue = Tail(@),
                                   !.pc = IF Len(sync.queue) = 1 THEN "done" ELSE "prompt"]
              ELSE /\ config' = register_onecompiler_id(config, f)
                   /\ sync' = [sync EXCEPT !.queue = Tail(@),
                                   !.pc = IF Len(sync.queue) = 1 THEN "done" ELSE "prompt"]
    /\ UNCHANGED <<wstate, stateFile, pending, wpc, pidFile, owed, events, quiet, notWatch>>

NextWatch ==
    \/ \E f \in UserPaths, c \in Contents : AddFile(f, c)
    \/ \E f \in UserPaths, c \in Contents : ModifyFile(f, c)
    \/ \E f \in UserPaths : DeleteFile(f)
    \/ Start
    \/ WakeUp
    \/ Detect
    \/ SaveState
    \/ Interrupt
    \/ stop_watcher
    \/ clear_pending
    \/ Reindex
    \/ SyncStart
    \/ \E new_id \in BOOLEAN : SyncStep(new_id)

\* the watcher process is scheduled; the user answers the prompts of sync
FairWatch ==
    /\ WF_vars(WakeUp)
    /\ WF_vars(Detect)
    /\ WF_vars(SaveState)
    /\ WF_vars(\E new_id \in BOOLEAN : SyncStep(new_id))

SpecWatch == InitWatch /\ [][NextWatch]_vars /\ FairWatch

(***************************************************************************)
(* Claims about the watcher and the sync script (checked under SpecWatch)  *)
(***************************************************************************)

ChangeTypes == {"added", "modified", "deleted"}

ChangeEntries == [file : UserPaths, type : ChangeTypes]

\* C5 (as stated): every addition, modification or deletion of a tracked
\* file made while the watcher runs is eventually appended to
\* pending_changes.json with the file's path and the matching type, as long
\* as the watcher keeps running.
C5_EveryChangeEventuallyRecorded ==
    \A e \in ChangeEntries : (e \in owed) ~> (e \notin owed \/ ~Running)

\* what a tracked file is now, compared with the watcher's last snapshot
NetType(f) ==
    IF f \notin DOMAIN wstate /\ f \in DOMAIN folder THEN "added"
    ELSE IF f \in DOMAIN wstate /\ f \notin DOMAIN folder THEN "deleted"
    ELSE IF f \in DOMAIN wstate /\ f \in DOMAIN folder
            /\ wstate[f] # [alg |-> "md5", of |-> folder[f]] THEN "modified"
    ELSE "none"

NetEntries == {[file |-> f, type |-> NetType(f)] : f \in {g \in UserPaths : NetType(g) # "none"}}

\* a pass of the watcher's loop body
PollStep == wpc = "checking" /\ wpc' \in {"saving", "sleeping"}

\* C5 (amended): each poll of the running watcher appends to
\* pending_changes.json exactly the net differences between its last
\* snapshot and the tracked files, one entry per file with the type of the
\* net difference (added / modified / deleted), and keeps the earlier
\* entries; and while the watcher keeps running every such difference is
\* eventually polled.  A change undone before the poll leaves no entry.
C5_PollRecordsNetChanges ==
    /\ [][PollStep =>
            /\ Len(pending') = Len(pending) + Cardinality(NetEntries)
            /\ SubSeq(pending', 1, Len(pending)) = pending
            /\ {pending'[i] : i \in Len(pending) + 1 .. Len(pending')} = NetEntries]_vars
    /\ \A f \in UserPaths :
          (Running /\ NetType(f) # "none") ~> (~Running \/ NetType(f) = "none")

C5_Witness ==
    /\ wpc = "saving"
    /\ events > 0
    /\ \E i \in DOMAIN pending : pending[i].type = "deleted"

\* C6: when sync_to_onecompiler.py --all runs, the files it treats as
\* pending include every file that pending_changes.json lists and that
\* still exists.
C6_SyncTakesPendingChanges ==
    [][(sync.pc # "prompt" /\ sync' # sync) =>
          {pending[i].file : i \in DOMAIN pending} \cap DOMAIN folder
              \subseteq sync'.files]_vars

RecordedPaths == {pending[i].file : i \in DOMAIN pending}

\* C14: each change is recorded once: after a poll that found changes, as
\* long as no tracked file changes again, no later poll appends anything to
\* pending_changes.json; and no entry of pending_changes.json names a file
\* under sync/ (watcher_state.json, pending_changes.json, watcher.pid).
C14_EachChangeRecordedOnce ==
    /\ [][(PollStep /\ quiet) => pending' = pending]_vars
    /\ [](\A f \in RecordedPaths : "sync" \notin Range(f.dirs))

\* the part of C14 that holds: the files under sync/ never count as
\* changes, and a pass of the loop that is not cut short stores the
\* snapshot of its poll in watcher_state.json
OwnWritesNeverCount ==
    /\ [](\A f \in RecordedPaths : "sync" \notin Range(f.dirs))
    /\ [](DOMAIN wstate \cap {StateJson, PendingJson, PidPath} = {})
    /\ [][(wpc = "saving" /\ wpc' = "sleeping") =>
             stateFile'.file_hashes = wstate]_vars

(***************************************************************************)
(* The marker-guarded injectors and the dry-run tools under tools/         *)
(*                                                                         *)
(* The content of a lesson file is a sequence of HTML fragments.  A        *)
(* fragment is named by what it is; Marks gives the substrings the tools   *)
(* search for that the fragment contains.  `x in content` is Has, a        *)
(* str.replace or re.sub of a fragment is ReplaceAll, a slice insertion is *)
(* InsertBefore.                                                           *)
(***************************************************************************)

\* longest lesson file of the initial states, in fragments
MaxLen == 3

\* number of runs of the tool in one behaviour
MaxRuns == 2

Marks(t) ==
    CASE t = "progress_tag"       -> {"progress.js", "progress_tag", "</script>"}
      [] t = "progress_ref"       -> {"progress.js"}
      [] t = "progress_comment"   -> {"<!-- Progress Tracking -->"}
      [] t = "question"           -> {"quiz-question", "data-correct="}
      [] t = "quiz_css"           -> {"quiz-question"}
      [] t = "nav_section"        -> {"navigation_section"}
      [] t = "section_card"       -> {"lesson"}
      [] t = "progress_init"      -> {"LearningProgress.init", "init_call"}
      [] t = "progress_init_bare" -> {"LearningProgress.init"}
      [] t = "breadcrumb_block"   -> {"breadcrumb.js", "</script>",
                                      "<!-- Breadcrumb Navigation -->"}
      [] t = "evidence_tag"       -> {"evidence-system.js", "</script>"}
      [] t = "mobile_link"        -> {"mobile.css"}
      [] t = "quiz_block"         -> {"quiz.js", "</script>"}
      [] t = "rpg_block"          -> {"rpg-system.js", "</script>"}
      [] t = "progress_block"     -> {"<!-- Progress Tracking -->", "progress.js",
                                      "progress_tag", "LearningProgress.init",
                                      "init_call", "</script>"}
      [] t = "practice_section"   -> {"practice-advanced", "</section>"}
      [] t = "summary_open"       -> {"lesson-summary.js"}
      [] t = "download_button"    -> {"downloadLessonProgress", "</section>"}
      [] t = "summary_init"       -> {"LessonSummary.init"}
      [] t = "download_func"      -> {"downloadLessonProgress",
                                      "function downloadLessonProgress"}
      [] t = "breadcrumb_ref"     -> {"breadcrumb.js"}
      [] t = "progress_script"    -> {"LearningProgress.init", "script_progress_init"}
      [] t = "summary_tag"        -> {"lesson-summary.js", "<!-- Lesson Summary System -->"}
      [] t = "summary_div"        -> {"id=lesson-summary"}
      [] t = "practice_exercise"  -> {"practice-exercise"}
      [] t = "simple_tag"         -> {"practice-simple.js"}
      [] t = "simple_init"        -> {"PracticeSimple.init"}
      [] t = "check_answer_func"  -> {"function checkAnswer("}
      [] t \in {"onclick_1", "onclick_2"} -> {"onclick=checkAnswer(N,"}
      [] t = "quiz_div"           -> {"class=quiz-question"}
      [] t = "feedback_1"         -> {"id=feedbackN"}
      [] t = "bridge_tag"         -> {"quiz-bridge.js", "bridge_tag"}
      [] t \in {"bridge_init_old_1", "bridge_init_old_2"} ->
             {"QuizBridge.init", "init_match", "old_init_block"}
      [] t = "bridge_init_odd_2"  -> {"QuizBridge.init", "init_match"}
      [] t \in {"bridge_init_new_1", "bridge_init_new_2"} ->
             {"QuizBridge.init", "init_match", "document.readyState"}
      [] OTHER                    -> {t}

\* mark in content
Has(content, mark) == \E i \in DOMAIN content : mark \in Marks(content[i])

\* content.find(mark) and content.rfind(mark), as fragment indices; 0: not found
Find(content, mark) ==
    IF Has(content, mark)
    THEN CHOOSE i \in DOMAIN content :
             /\ mark \in Marks(content[i])
             /\ \A j \in 1..(i - 1) : mark \notin Marks(content[j])
    ELSE 0

RFind(content, mark) ==
    IF Has(content, mark)
    THEN CHOOSE i \in DOMAIN content :
             /\ mark \in Marks(content[i])
             /\ \A j \in (i + 1)..Len(content) : mark \notin Marks(content[j])
    ELSE 0

RECURSIVE ReplaceAll(_, _, _)
\* content.replace(old, new): every fragment old becomes the fragments new
ReplaceAll(content, old, new) ==
    IF content = <<>> THEN <<>>
    ELSE (IF Head(content) = old THEN new ELSE <<Head(content)>>)
             \o ReplaceAll(Tail(content), old, new)

\* content[:i] + new + content[i:], i the offset of fragment k
InsertBefore(content, k, new) ==
    SubSeq(content, 1, k - 1) \o new \o SubSeq(content, k, Len(content))

\* what a run of a tool on one file comes to: the status it reports, the
\* counter of the summary the file goes to, whether the file is written,
\* and the content written
Outcome(status, count, write, content) ==
    [status |-> status, count |-> count, write |-> write, content |-> content]

\* where the lesson file lies: below a cls* folder, in a m* folder below
\* it, with a name lectia<digits>
Locs ==
    {[grade |-> TRUE, module |-> TRUE, number |-> TRUE],
     [grade |-> TRUE, module |-> FALSE, number |-> TRUE],
     [grade |-> FALSE, module |-> FALSE, number |-> TRUE],
     [grade |-> TRUE, module |-> TRUE, number |-> FALSE]}

LessonLoc == [grade |-> TRUE, module |-> TRUE, number |-> TRUE]

\* add_breadcrumbs.py
remove_old_nav(content) == SelectSeq(content, LAMBDA t : t # "nav_back")

add_breadcrumb_to_file(content, where, dry_run) ==
    IF Has(content, "breadcrumb.js") THEN Outcome("skip", "skipped", FALSE, content)
    ELSE IF ~where.grade THEN Outcome("skip", "skipped", FALSE, content)
    ELSE LET cleaned == remove_old_nav(content)
             new == IF Has(cleaned, "</body>")
                    THEN ReplaceAll(cleaned, "</body>", <<"breadcrumb_block", "</body>">>)
                    ELSE Append(cleaned, "breadcrumb_block")
         IN  IF dry_run THEN Outcome("would_update", "updated", FALSE, new)
             ELSE Outcome("updated", "updated", TRUE, new)

\* add_evidence_script.py
needs_evidence_script(content) ==
    IF Has(content, "evidence-system.js") THEN FALSE
    ELSE Has(content, "progress.js")

add_evidence_script_After(content) ==
    ReplaceAll(content, "progress_tag", <<"progress_tag", "evidence_tag">>)

add_evidence_script(content) ==
    ReplaceAll(content, "progress_tag", <<"evidence_tag", "progress_tag">>)

evidence_process_file(content, dry_run) ==
    IF ~needs_evidence_script(content) THEN Outcome("skipped", "skipped", FALSE, content)
    ELSE LET new_content == add_evidence_script(content)
         IN  IF new_content = content
             THEN Outcome("no_change", "no_change", FALSE, content)
             ELSE IF dry_run THEN Outcome("would_update", "would_update", FALSE, new_content)
             ELSE Outcome("updated", "updated", TRUE, new_content)

\* add_mobile_css.py
add_mobile_css_to_file(content) ==
    IF Has(content, "mobile.css") THEN Outcome("Already has", "skipped", FALSE, content)
    ELSE IF Has(content, "</head>")
    THEN Outcome("Added", "updated", TRUE,
                 ReplaceAll(content, "</head>", <<"mobile_link", "</head>">>))
    ELSE Outcome("No </head>", "errors", FALSE, content)

\* add_quiz_enhancements.py
has_quiz(content) == Has(content, "quiz-question") /\ Has(content, "data-correct=")

add_quiz_to_file(content, dry_run) ==
    IF ~has_quiz(content) THEN Outcome("no quiz", "no_quiz", FALSE, content)
    ELSE IF Has(content, "quiz.js") THEN Outcome("skip", "skipped", FALSE, content)
    ELSE LET new == IF Has(content, "</body>")
                    THEN ReplaceAll(content, "</body>", <<"quiz_block", "</body>">>)
                    ELSE Append(content, "quiz_block")
         IN  IF dry_run THEN Outcome("would_add", "updated", FALSE, new)
             ELSE Outcome("added", "updated", TRUE, new)

\* add_rpg_to_lessons.py: the fragment index before which the snippet goes;
\* 0: no insertion point
find_insertion_point(content) ==
    IF Has(content, "progress_tag") THEN Find(content, "progress_tag") + 1
    ELSE LET idx == Find(content, "<!-- Progress Tracking -->")
             after == {j \in DOMAIN content : j >= idx /\ "</script>" \in Marks(content[j])}
         IN  IF idx # 0 /\ after # {}
             THEN (CHOOSE j \in after : \A k \in after : j <= k) + 1
             ELSE RFind(content, "</body>")

rpg_process_lesson(content, where) ==
    IF Has(content, "rpg-system.js") THEN Outcome("Already has RPG", "skipped", FALSE, content)
    ELSE IF ~where.grade \/ ~where.module
    THEN Outcome("Could not determine grade/module", "errors", FALSE, content)
    ELSE IF find_insertion_point(content) = 0
    THEN Outcome("Could not find insertion point", "errors", FALSE, content)
    ELSE Outcome("Added RPG", "updated", TRUE,
                 InsertBefore(content, find_insertion_point(content), <<"rpg_block">>))

\* integrate_progress.py: the module is whatever follows the cls* folder
integrate_progress(content, where) ==
    IF ~where.grade \/ ~where.number
    THEN Outcome("couldn't parse info", "skipped", FALSE, content)
    ELSE IF Has(content, "LearningProgress.init")
    THEN Outcome("Already integrated", "skipped", FALSE, content)
    ELSE IF Has(content, "</body>")
    THEN Outcome("Integrated", "integrated", TRUE,
                 ReplaceAll(content, "</body>", <<"progress_block", "</body>">>))
    ELSE Outcome("no </body> tag found", "skipped", FALSE, content)

\* inject_practica.py
has_practice_section(html_content) == Has(html_content, "practice-advanced")

inject_practice(html_content) ==
    IF Has(html_content, "</main>")
    THEN ReplaceAll(html_content, "</main>", <<"practice_section", "</main>">>)
    ELSE IF Has(html_content, "navigation_section")
    THEN ReplaceAll(html_content, "nav_section", <<"practice_section", "nav_section">>)
    ELSE IF RFind(html_content, "</section>") > 1
    THEN InsertBefore(html_content, RFind(html_content, "</section>"),
                      <<"practice_section">>)
    ELSE ReplaceAll(html_content, "</body>", <<"practice_section", "</body>">>)

practica_process_lesson(html_content, dry_run) ==
    IF has_practice_section(html_content)
    THEN Outcome("exists", "exists", FALSE, html_content)
    ELSE IF dry_run
    THEN Outcome("would_inject", "would_inject", FALSE, inject_practice(html_content))
    ELSE Outcome("injected", "injected", TRUE, inject_practice(html_content))

\* upgrade_lessons.py
LESSON_SUMMARY_SCRIPT == <<"summary_open", "</script>">>

is_already_upgraded(content) ==
    Has(content, "lesson-summary.js") \/ Has(content, "LessonSummary.init")

\* step 1: the lesson-summary.js script
UpgradeScript(c) ==
    IF Has(c, "lesson-summary.js") THEN [content |-> c, changes |-> <<>>]
    ELSE IF Has(c, "user_system")
    THEN [content |-> ReplaceAll(c, "user_system", LESSON_SUMMARY_SCRIPT \o <<"user_system">>),
          changes |-> <<"Added lesson-summary.js script">>]
    ELSE IF Has(c, "</body>")
    THEN [content |-> ReplaceAll(c, "</body>", LESSON_SUMMARY_SCRIPT \o <<"</body>">>),
          changes |-> <<"Added lesson-summary.js script">>]
    ELSE [content |-> c, changes |-> <<>>]

\* step 2: the download button
UpgradeButton(c) ==
    IF Has(c, "downloadLessonProgress") THEN [content |-> c, changes |-> <<>>]
    ELSE IF Has(c, "nav_bottom")
    THEN [content |-> ReplaceAll(c, "nav_bottom", <<"download_button", "nav_bottom">>),
          changes |-> <<"Added download button and summary container">>]
    ELSE IF Has(c, "<footer>")
    THEN [content |-> ReplaceAll(c, "<footer>", <<"download_button", "</div>", "<footer>">>),
          changes |-> <<"Added download button before footer">>]
    ELSE [content |-> c, changes |-> <<>>]

\* step 3, first half: the LessonSummary.init() call
UpgradeInit(c) ==
    IF Has(c, "LearningProgress.init")
    THEN [content |-> ReplaceAll(c, "progress_init", <<"progress_init", "summary_init">>),
          changes |-> <<"Added LessonSummary.init()">>]
    ELSE IF RFind(c, "</script>") > 1
    THEN [content |-> InsertBefore(c, RFind(c, "</script>"), <<"summary_init">>),
          changes |-> <<"Added LessonSummary.init()">>]
    ELSE [content |-> c, changes |-> <<>>]

\* '</script>' directly followed by '</body>'
ScriptBeforeBody(c) ==
    {i \in 1..(Len(c) - 1) : c[i] = "</script>" /\ c[i + 1] = "</body>"}

RECURSIVE InsertBeforeEach(_, _, _, _)
\* c with new put before every fragment whose index is in at, from index i on
InsertBeforeEach(c, at, new, i) ==
    IF i > Len(c) THEN <<>>
    ELSE (IF i \in at THEN new ELSE <<>>) \o <<c[i]>> \o InsertBeforeEach(c, at, new, i + 1)

\* step 3, second half: the downloadLessonProgress function
UpgradeFunction(c) ==
    IF Has(c, "function downloadLessonProgress") \/ ScriptBeforeBody(c) = {}
    THEN [content |-> c, changes |-> <<>>]
    ELSE [content |-> InsertBeforeEach(c, ScriptBeforeBody(c), <<"download_func">>, 1),
          changes |-> <<"Added downloadLessonProgress function">>]

upgrade_lesson(content, dry_run) ==
    IF is_already_upgraded(content) THEN Outcome("skipped", "skipped", FALSE, content)
    ELSE IF ~Has(content, "lesson") THEN Outcome("skipped", "skipped", FALSE, content)
    ELSE LET s1 == UpgradeScript(content)
             s2 == UpgradeButton(s1.content)
             s3 == IF Has(s2.content, "LessonSummary.init")
                   THEN [content |-> s2.content, changes |-> <<>>]
                   ELSE UpgradeInit(s2.content)
             s4 == IF Has(s2.content, "LessonSummary.init")
                   THEN [content |-> s3.content, changes |-> <<>>]
                   ELSE UpgradeFunction(s3.content)
             changes == s1.changes \o s2.changes \o s3.changes \o s4.changes
         IN  IF changes = <<>> THEN Outcome("skipped", "skipped", FALSE, content)
             ELSE IF dry_run THEN Outcome("would_upgrade", "upgraded", FALSE, s4.content)
             ELSE Outcome("upgraded", "upgraded", TRUE, s4.content)

Injectors ==
    {"add_breadcrumbs", "add_evidence_script", "add_mobile_css", "add_quiz_enhancements",
     "add_rpg_to_lessons", "integrate_progress", "inject_practica"}

\* the tools with a dry-run option
DryRunTools ==
    {"add_breadcrumbs", "add_evidence_script", "add_quiz_enhancements", "inject_practica",
     "upgrade_lessons"}

Tools == Injectors \cup {"upgrade_lessons"}

\* the fragments a lesson file holds that matter to a tool
Alphabet(t) ==
    CASE t = "add_breadcrumbs"       -> {"text", "</body>", "nav_back", "breadcrumb_block"}
      [] t = "add_evidence_script"   -> {"text", "progress_tag", "progress_ref", "evidence_tag"}
      [] t = "add_mobile_css"        -> {"text", "</head>", "mobile_link"}
      [] t = "add_quiz_enhancements" -> {"question", "quiz_css", "</body>", "quiz_block"}
      [] t = "add_rpg_to_lessons"    -> {"progress_tag", "progress_comment", "</script>",
                                         "</body>", "rpg_block"}
      [] t = "integrate_progress"    -> {"text", "</body>", "progress_block"}
      [] t = "inject_practica"       -> {"text", "</main>", "nav_section", "</section>",
                                         "</body>", "practice_section"}
      [] t = "upgrade_lessons"       -> {"section_card", "user_system", "</body>",
                                         "nav_bottom", "<footer>", "progress_init",
                                         "progress_init_bare", "</script>", "summary_init"}

Pages(t) == UNION {[1..n -> Alphabet(t)] : n \in 0..MaxLen}

\* the tools that read the place of the file
LocTools == {"add_breadcrumbs", "add_rpg_to_lessons", "integrate_progress"}

NoFlags == [dry_run |-> FALSE, apply |-> FALSE, backup |-> FALSE]

\* the command lines of a tool
Flags(t) ==
    IF t = "inject_practica" THEN [dry_run : BOOLEAN, apply : BOOLEAN, backup : BOOLEAN]
    ELSE IF t \in DryRunTools THEN [dry_run : BOOLEAN, apply : {FALSE}, backup : {FALSE}]
    ELSE {NoFlags}

InitInject ==
    /\ tool \in Tools
    /\ page \in Pages(tool)
    /\ loc \in IF tool \in LocTools THEN Locs ELSE {LessonLoc}
    /\ runs = <<>>
    /\ backups = {}
    /\ EvalIdle /\ WatchIdle /\ AtomIdle /\ OthersIdle

\* what the tool does with the lesson file
ProcessFile(t, content, where, flags) ==
    CASE t = "add_breadcrumbs"       -> add_breadcrumb_to_file(content, where, flags.dry_run)
      [] t = "add_evidence_script"   -> evidence_process_file(content, flags.dry_run)
      [] t = "add_mobile_css"        -> add_mobile_css_to_file(content)
      [] t = "add_quiz_enhancements" -> add_quiz_to_file(content, flags.dry_run)
      [] t = "add_rpg_to_lessons"    -> rpg_process_lesson(content, where)
      [] t = "integrate_progress"    -> integrate_progress(content, where)
      [] t = "inject_practica"       ->
             IF ~flags.dry_run /\ ~flags.apply
             THEN Outcome("usage", "none", FALSE, content)
             ELSE practica_process_lesson(content, flags.dry_run)
      [] t = "upgrade_lessons"       -> upgrade_lesson(content, flags.dry_run)

\* the backup copies a run makes: create_backup of inject_practica.py,
\* the .html.bak of upgrade_lessons.py
BackupsMade(t, flags, outcome) ==
    IF t = "inject_practica" /\ flags.backup /\ flags.apply
    THEN IF "backup-before-practica" \in backups
         THEN {"backup-before-practica", "backup-before-practica-timestamp"}
         ELSE {"backup-before-practica"}
    ELSE IF t = "upgrade_lessons" /\ outcome.write /\ "html.bak" \notin backups
    THEN {"html.bak"}
    ELSE {}

\* one run of the tool's main
Run(flags) ==
    /\ Len(runs) < MaxRuns
    /\ LET outcome == ProcessFile(tool, page, loc, flags)
           made == BackupsMade(tool, flags, outcome)
       IN  /\ page' = IF outcome.write THEN outcome.content ELSE page
           /\ backups' = backups \cup made
           /\ runs' = Append(runs,
                  [flags |-> flags, status |-> outcome.status, count |-> outcome.count,
                   before |-> page, after |-> page',
                   wrote |-> (IF outcome.write THEN {"lesson"} ELSE {})
                                \cup (IF made # {} THEN {"backup"} ELSE {})])
    /\ UNCHANGED <<loc, tool, notInject>>

NextInject == \E flags \in Flags(tool) : Run(flags)

SpecInject == InitInject /\ [][NextInject]_vars

(***************************************************************************)
(* Claims about the injectors and the dry-run tools (under SpecInject)     *)
(***************************************************************************)

\* a run that may write the lesson file
IsLive(r) == ~r.flags.dry_run /\ (tool = "inject_practica" => r.flags.apply)

\* the summary counters of the files a tool says it has changed, and of
\* the files it says it has left alone because they are done
UpdatedCounts == {"updated", "integrated", "injected"}

SkippedCounts == {"skipped", "exists"}

\* C8: for each of the seven marker-guarded injectors, a live run on a file
\* that the previous live run of the same injector reported as updated
\* leaves the content of the file unchanged and counts the file as skipped.
C8_InjectorsRepeatable ==
    tool \in Injectors =>
        \A i \in 1..(Len(runs) - 1) :
            (IsLive(runs[i]) /\ runs[i].count \in UpdatedCounts /\ IsLive(runs[i + 1])) =>
                /\ runs[i + 1].after = runs[i].after
                /\ runs[i + 1].count \in SkippedCounts

\* the part of C8 that holds for all seven injectors: the content of the
\* file is the same after any number of live runs as after the first
ContentStableAfterFirstRun ==
    tool \in Injectors =>
        \A i \in 1..(Len(runs) - 1) :
            (IsLive(runs[i]) /\ IsLive(runs[i + 1])) => runs[i + 1].after = runs[i].after

\* the statuses by which a dry run says that the file would change
WouldChange == {"would_update", "would_add", "would_inject", "would_upgrade"}

\* the same command line without the dry-run option
LiveFlags(flags) == [flags EXCEPT !.dry_run = FALSE, !.apply = TRUE]

\* C9: a run in dry-run mode writes no file (no lesson, no backup), and it
\* reports a file as one it would change exactly when the live run on the
\* same content writes a different content.
C9_DryRunFaithful ==
    \A i \in DOMAIN runs :
        runs[i].flags.dry_run =>
            /\ runs[i].wrote = {}
            /\ runs[i].after = runs[i].before
            /\ runs[i].status \in WouldChange <=>
                   LET live == ProcessFile(tool, runs[i].before, loc, LiveFlags(runs[i].flags))
                   IN  live.write /\ live.content # runs[i].before

\* C12: in every file that add_evidence_script.py updates, each progress.js
\* script tag is directly preceded by an evidence-system.js script tag (and
\* there is such a tag); a file that already refers to evidence-system.js,
\* or that does not refer to progress.js, is left as it was and not written.
C12_EvidenceBeforeProgress ==
    tool = "add_evidence_script" =>
        \A i \in DOMAIN runs :
            /\ runs[i].status = "updated" =>
                   /\ "lesson" \in runs[i].wrote
                   /\ Has(runs[i].after, "progress_tag")
                   /\ \A k \in DOMAIN runs[i].after :
                          runs[i].after[k] = "progress_tag" =>
                              k > 1 /\ runs[i].after[k - 1] = "evidence_tag"
            /\ (Has(runs[i].before, "evidence-system.js")
                    \/ ~Has(runs[i].before, "progress.js")) =>
                   runs[i].wrote = {} /\ runs[i].after = runs[i].before

\* a run has updated a file with two progress.js script tags, and another
\* run has left the file alone
C12_Witness ==
    /\ tool = "add_evidence_script"
    /\ Len(runs) = 2
    /\ runs[1].status = "updated"
    /\ Cardinality({k \in DOMAIN runs[1].after : runs[1].after[k] = "progress_tag"}) = 2
    /\ runs[2].status = "skipped"
    /\ runs[2].wrote = {}

(***************************************************************************)
(* tools/convert_to_atomic.py: convert_lesson and generate_atomic_lesson   *)
(*                                                                         *)
(* parse_existing_lesson gives a title, the content sections (each with    *)
(* some content, with or without a title of its own) and the quiz          *)
(* questions (each with at least one option); question k is the number k.  *)
(* None is 0.                                                              *)
(***************************************************************************)

MaxSections == 3

MaxQuestions == 3

Sections == UNION {[1..n -> [titled : BOOLEAN]] : n \in 0..MaxSections}

InitAtom ==
    /\ lessonData \in [title : BOOLEAN, sections : Sections, questions : 0..MaxQuestions]
    /\ apc = "idle"
    /\ secIdx = 0
    /\ qIdx = 0
    /\ atoms = <<>>
    /\ atomsHtml = <<>>
    /\ EvalIdle /\ WatchIdle /\ InjectIdle /\ OthersIdle

\* convert_lesson up to the call of generate_atomic_lesson
ConvertLesson ==
    /\ apc = "idle"
    /\ apc' = IF ~lessonData.title THEN "error"
              ELSE IF lessonData.sections = <<>> /\ lessonData.questions = 0 THEN "error"
              ELSE "sections"
    /\ UNCHANGED <<lessonData, secIdx, qIdx, atoms, atomsHtml, notAtom>>

\* one pass of `for i, section in enumerate(content_sections)`
SectionAtom ==
    /\ apc = "sections"
    /\ secIdx < Len(lessonData.sections)
    /\ LET i == secIdx
           atom_question == IF qIdx < lessonData.questions THEN qIdx + 1 ELSE 0
       IN  /\ atoms' = Append(atoms,
                  [id |-> [kind |-> "atom", n |-> i + 1], number |-> i + 1,
                   title |-> IF lessonData.sections[i + 1].titled THEN "section" ELSE "Concept",
                   question |-> atom_question])
           /\ qIdx' = IF qIdx < lessonData.questions THEN qIdx + 1 ELSE qIdx
    /\ secIdx' = secIdx + 1
    /\ UNCHANGED <<lessonData, apc, atomsHtml, notAtom>>

\* one pass of `while q_idx < len(questions)`
ExtraAtom ==
    /\ apc = "sections"
    /\ secIdx = Len(lessonData.sections)
    /\ qIdx < lessonData.questions
    /\ atoms' = Append(atoms,
           [id |-> [kind |-> "atom-extra", n |-> qIdx], number |-> Len(atoms) + 1,
            title |-> "Verificare", question |-> qIdx + 1])
    /\ qIdx' = qIdx + 1
    /\ UNCHANGED <<lessonData, apc, secIdx, atomsHtml, notAtom>>

\* `if len(atoms) < 2`
SummaryAtom ==
    /\ apc = "sections"
    /\ secIdx = Len(lessonData.sections)
    /\ qIdx >= lessonData.questions
    /\ atoms' = IF Len(atoms) < 2
                THEN Append(atoms,
                         [id |-> [kind |-> "atom-summary", n |-> 0],
                          number |-> Len(atoms) + 1, title |-> "Rezumat", question |-> 0])
                ELSE atoms
    /\ apc' = "render"
    /\ UNCHANGED <<lessonData, secIdx, qIdx, atomsHtml, notAtom>>

\* the <div class="atom"> of one atom: its data-quiz list and whether it
\* holds a <div class="atom-quiz">
RenderAtom(atom) ==
    [id |-> atom.id,
     data_quiz |-> IF atom.question # 0 THEN <<atom.question>> ELSE <<>>,
     atom_quiz |-> atom.question # 0]

\* `for atom in atoms`, the page around it, and the write of convert_lesson
Render ==
    /\ apc = "render"
    /\ atomsHtml' = [k \in DOMAIN atoms |-> RenderAtom(atoms[k])]
    /\ apc' = "success"
    /\ UNCHANGED <<lessonData, secIdx, qIdx, atoms, notAtom>>

NextAtom ==
    \/ ConvertLesson
    \/ SectionAtom
    \/ ExtraAtom
    \/ SummaryAtom
    \/ Render

SpecAtom == InitAtom /\ [][NextAtom]_vars

\* C10: in every lesson that convert_lesson writes, each atom carries an
\* inline quiz: its data-quiz list is not empty and it holds an atom-quiz
\* block.
C10_EveryAtomHasQuiz ==
    apc = "success" =>
        \A k \in DOMAIN atomsHtml :
            atomsHtml[k].data_quiz # <<>> /\ atomsHtml[k].atom_quiz

(***************************************************************************)
(* tools/fix-all-lessons.py and tools/audit-lessons.py                     *)
(*                                                                         *)
(* The lesson file is a sequence of HTML fragments, as for the injectors.  *)
(* onclick_N is an option button of question N, feedback_1 the feedback    *)
(* div of question 1, bridge_init_*_N a script that calls QuizBridge.init  *)
(* with totalQuestions: N -- old: the block LessonFixer rewrites, odd: a   *)
(* call inside a script with other statements, new: the block with the     *)
(* readyState test.  None is 0.                                            *)
(***************************************************************************)

\* number of fragments, besides the closing tags of the page, that a lesson
\* file of the initial states holds
MaxFeatures == 3

\* number of runs of fix-all-lessons.py in one behaviour
MaxFixRuns == 2

\* the fragments of a lesson, in the order of the document
Layout ==
    <<"</head>", "practice_section", "quiz_div", "onclick_1", "onclick_2", "feedback_1",
      "summary_div", "</main>", "check_answer_func", "simple_tag", "simple_init",
      "progress_script", "progress_init_bare", "bridge_tag", "bridge_init_old_1",
      "bridge_init_old_2", "bridge_init_odd_2", "bridge_init_new_1", "summary_open",
      "summary_tag", "summary_init", "breadcrumb_block", "breadcrumb_ref", "</body>">>

ClosingTags == {"</head>", "</main>", "</body>"}

Features == Range(Layout) \ ClosingTags

\* the lesson that holds the fragments S
LessonOf(S) == SelectSeq(Layout, LAMBDA t : t \in S)

\* the N of onclick="checkAnswer(N, and of id="feedbackN"
QuestionNumber(t) == IF t = "onclick_2" THEN 2 ELSE 1

\* set(re.findall(pattern, content))
FindAllNumbers(content, mark) ==
    {QuestionNumber(content[i]) : i \in {j \in DOMAIN content : mark \in Marks(content[j])}}

\* len(re.findall(pattern, content))
CountMatches(content, mark) ==
    Cardinality({i \in DOMAIN content : mark \in Marks(content[i])})

\* LessonFixer.count_quiz_questions
fixer_count_quiz_questions(content) ==
    IF FindAllNumbers(content, "onclick=checkAnswer(N,") # {}
    THEN Cardinality(FindAllNumbers(content, "onclick=checkAnswer(N,"))
    ELSE Cardinality(FindAllNumbers(content, "id=feedbackN"))

\* LessonAuditor.count_quiz_questions
auditor_count_quiz_questions(content) ==
    IF FindAllNumbers(content, "onclick=checkAnswer(N,") # {}
    THEN Cardinality(FindAllNumbers(content, "onclick=checkAnswer(N,"))
    ELSE IF CountMatches(content, "class=quiz-question") > 0
    THEN CountMatches(content, "class=quiz-question")
    ELSE Cardinality(FindAllNumbers(content, "id=feedbackN"))

\* the totalQuestions of a QuizBridge.init script
TotalQuestions(t) ==
    IF t \in {"bridge_init_old_1", "bridge_init_new_1"} THEN 1 ELSE 2

get_init_total_questions(content) ==
    IF Has(content, "init_match") THEN TotalQuestions(content[Find(content, "init_match")])
    ELSE 0

\* what fix_lesson reads from the file before it changes anything
Exists(content) ==
    [quiz_bridge         |-> Has(content, "quiz-bridge.js"),
     quiz_bridge_init    |-> Has(content, "QuizBridge.init"),
     lesson_summary      |-> Has(content, "lesson-summary.js"),
     lesson_summary_init |-> Has(content, "LessonSummary.init"),
     lesson_summary_div  |-> Has(content, "id=lesson-summary"),
     practice_simple      |-> Has(content, "practice-simple.js"),
     practice_simple_init |-> Has(content, "PracticeSimple.init"),
     practice_section    |-> Has(content, "practice-advanced") \/ Has(content, "practice-exercise"),
     inline_check_answer |-> Has(content, "function checkAnswer("),
     ready_state         |-> Has(content, "document.readyState"),
     actual_questions    |-> fixer_count_quiz_questions(content)]

\* a step of fix_lesson: the content it leaves and what it adds to fixes_applied
Fixed(content, applied) == [content |-> content, fixes |-> applied]

\* Fix 1: Add #lesson-summary div if missing
Fix1(c, has) ==
    IF ~has.lesson_summary_div /\ Has(c, "</main>")
    THEN Fixed(ReplaceAll(c, "</main>", <<"</main>", "summary_div">>),
               <<"Added #lesson-summary div">>)
    ELSE Fixed(c, <<>>)

\* Fix 2: Add practice-simple.js if needed
Fix2(c, has) ==
    IF has.practice_section /\ ~has.practice_simple /\ Has(c, "LearningProgress.init")
    THEN Fixed(ReplaceAll(c, "progress_script", <<"simple_tag", "progress_script">>),
               <<"Added practice-simple.js">>)
    ELSE Fixed(c, <<>>)

\* Fix 3: Add PracticeSimple.init if needed
Fix3(c, has) ==
    IF has.practice_section /\ ~has.practice_simple_init /\ Has(c, "LearningProgress.init")
    THEN Fixed(ReplaceAll(c, "progress_script", <<"simple_init", "progress_script">>),
               <<"Added PracticeSimple.init()">>)
    ELSE Fixed(c, <<>>)

\* Fix 4: Add lesson-summary.js if missing
Fix4(c, has) ==
    IF ~has.lesson_summary /\ Has(c, "</head>") /\ Has(c, "</body>")
    THEN Fixed(IF Has(c, "breadcrumb.js")
               THEN ReplaceAll(c, "breadcrumb_block", <<"summary_tag", "breadcrumb_block">>)
               ELSE ReplaceAll(c, "</body>", <<"summary_tag", "</body>">>),
               <<"Added lesson-summary.js">>)
    ELSE Fixed(c, <<>>)

\* Fix 5: Add LessonSummary.init if missing
Fix5(c, has) ==
    IF ~has.lesson_summary_init /\ Has(c, "</body>")
    THEN Fixed(ReplaceAll(c, "</body>", <<"summary_init", "</body>">>),
               <<"Added LessonSummary.init()">>)
    ELSE Fixed(c, <<>>)

\* Fix 6: Add quiz-bridge.js if has inline checkAnswer
Fix6(c, has) ==
    IF has.inline_check_answer /\ has.actual_questions > 0 /\ ~has.quiz_bridge
    THEN Fixed(IF Has(c, "lesson-summary.js")
               THEN ReplaceAll(c, "summary_tag", <<"bridge_tag", "summary_tag">>)
               ELSE IF Has(c, "</body>")
               THEN ReplaceAll(c, "</body>", <<"bridge_tag", "</body>">>)
               ELSE c,
               <<"Added quiz-bridge.js">>)
    ELSE Fixed(c, <<>>)

\* the script with the readyState test and totalQuestions: n
NewInit(n) == IF n = 1 THEN "bridge_init_new_1" ELSE "bridge_init_new_2"

\* Fix 7: Add QuizBridge.init with correct totalQuestions and readyState
Fix7(c, has) ==
    IF ~(has.inline_check_answer /\ has.actual_questions > 0) THEN Fixed(c, <<>>)
    ELSE IF Has(c, "init_match")
    THEN IF Has(c, "old_init_block")
         THEN Fixed(ReplaceAll(c, c[Find(c, "old_init_block")],
                               <<NewInit(has.actual_questions)>>),
                    <<"Fixed QuizBridge.init">>)
         ELSE Fixed(c, <<>>)
    ELSE IF ~has.quiz_bridge_init /\ Has(c, "quiz-bridge.js")
    THEN Fixed(ReplaceAll(c, "bridge_tag", <<"bridge_tag", NewInit(has.actual_questions)>>),
               <<"Added QuizBridge.init">>)
    ELSE Fixed(c, <<>>)

\* LessonFixer.fix_lesson: the content of the file afterwards (written only
\* if it differs) and fixes_applied
fix_lesson(content) ==
    LET has == Exists(content)
        s1 == Fix1(content, has)
        s2 == Fix2(s1.content, has)
        s3 == Fix3(s2.content, has)
        s4 == Fix4(s3.content, has)
        s5 == Fix5(s4.content, has)
        s6 == Fix6(s5.content, has)
        s7 == Fix7(s6.content, has)
    IN  Fixed(s7.content,
              s1.fixes \o s2.fixes \o s3.fixes \o s4.fixes \o s5.fixes \o s6.fixes
                  \o s7.fixes)

IssueTypes ==
    {"MISSING_QUIZ_BRIDGE_JS", "MISSING_QUIZ_BRIDGE_INIT", "WRONG_TOTAL_QUESTIONS",
     "MISSING_READY_STATE", "MISSING_LESSON_SUMMARY_JS", "MISSING_LESSON_SUMMARY_INIT",
     "MISSING_LESSON_SUMMARY_DIV", "MISSING_PRACTICE_SIMPLE_JS",
     "MISSING_PRACTICE_SIMPLE_INIT"}

\* LessonAuditor.audit_lesson: the types of the issues it reports
audit_lesson(content) ==
    LET has_quiz_bridge == Has(content, "quiz-bridge.js")
        has_quiz_bridge_init == Has(content, "QuizBridge.init")
        has_lesson_summary == Has(content, "lesson-summary.js")
        has_lesson_summary_init == Has(content, "LessonSummary.init")
        has_practice_simple == Has(content, "practice-simple.js")
        has_practice_simple_init == Has(content, "PracticeSimple.init")
        has_practice == Has(content, "practice-advanced") \/ Has(content, "practice-exercise")
        actual_questions == auditor_count_quiz_questions(content)
        init_questions == get_init_total_questions(content)
        has_ready_state_check == Has(content, "document.readyState")
        has_lesson_summary_div == Has(content, "id=lesson-summary")
        has_inline_check_answer == Has(content, "function checkAnswer(")
        quiz == has_inline_check_answer /\ actual_questions > 0
    IN  {t \in IssueTypes :
            \/ t = "MISSING_QUIZ_BRIDGE_JS" /\ quiz /\ ~has_quiz_bridge
            \/ t = "MISSING_QUIZ_BRIDGE_INIT" /\ quiz /\ ~has_quiz_bridge_init
            \/ t = "WRONG_TOTAL_QUESTIONS" /\ quiz /\ init_questions # 0
                   /\ init_questions # actual_questions
            \/ t = "MISSING_READY_STATE" /\ quiz /\ has_quiz_bridge_init
                   /\ ~has_ready_state_check
            \/ t = "MISSING_LESSON_SUMMARY_JS" /\ ~has_lesson_summary
            \/ t = "MISSING_LESSON_SUMMARY_INIT" /\ ~has_lesson_summary_init
            \/ t = "MISSING_LESSON_SUMMARY_DIV" /\ has_lesson_summary_init
                   /\ ~has_lesson_summary_div
            \/ t = "MISSING_PRACTICE_SIMPLE_JS" /\ has_practice /\ ~has_practice_simple
            \/ t = "MISSING_PRACTICE_SIMPLE_INIT" /\ has_practice
                   /\ ~has_practice_simple_init}

NoAudit == [ran |-> FALSE, issues |-> {}]

InitFix ==
    /\ \E tags \in SUBSET ClosingTags, pick \in [1..MaxFeatures -> Features \cup {"none"}] :
          lesson = LessonOf(tags \cup (Range(pick) \ {"none"}))
    /\ fixRuns = 0
    /\ fixes = <<>>
    /\ audit = NoAudit
    /\ EvalIdle /\ WatchIdle /\ InjectIdle /\ AtomIdle /\ DiffIdle /\ CrumbIdle

\* fix-all-lessons.py comes to the lesson file
FixLesson ==
    /\ fixRuns < MaxFixRuns
    /\ lesson' = fix_lesson(lesson).content
    /\ fixes' = fix_lesson(lesson).fixes
    /\ fixRuns' = fixRuns + 1
    /\ audit' = NoAudit
    /\ UNCHANGED notFix

\* audit-lessons.py comes to the lesson file
AuditLesson ==
    /\ ~audit.ran
    /\ audit' = [ran |-> TRUE, issues |-> audit_lesson(lesson)]
    /\ UNCHANGED <<lesson, fixRuns, fixes, notFix>>

NextFix ==
    \/ FixLesson
    \/ AuditLesson

SpecFix == InitFix /\ [][NextFix]_vars

\* C11: once fix_lesson has processed a lesson file, audit_lesson on that
\* file reports no issue of any type.
C11_FixedLessonPassesAudit ==
    (fixRuns > 0 /\ audit.ran) => audit.issues = {}

\* the lessons where the claim's case is the usual one: the page has its
\* </head>, <main> and </body>, and after the fix the audit is clean
FixedLessonClean ==
    /\ fixRuns > 0 /\ audit.ran /\ audit.issues = {}
    /\ fixes # <<>>
    /\ ClosingTags \subseteq Range(lesson)

(***************************************************************************)
(* detect_changes of sync/learninghub_watcher.py, as a function of its two *)
(* arguments                                                               *)
(***************************************************************************)

StyleCss == [dirs |-> <<"css">>, stem |-> <<"style">>, suffix |-> ".css"]

\* the keys of the two dicts
DiffPaths == UserPaths \cup {StyleCss}

\* get_file_hash returns "" for a file it cannot read
UnreadableHash == [alg |-> "none", of |-> [body |-> "", prepared |-> "no"]]

Hashes == {get_file_hash(c) : c \in Contents} \cup {UnreadableHash}

\* the dicts get_tracked_files can return
HashDicts == UNION {[D -> Hashes] : D \in SUBSET DiffPaths}

InitDiff ==
    /\ diffOld \in HashDicts
    /\ diffNew \in HashDicts
    /\ diffOut = [ran |-> FALSE, added |-> {}, modified |-> {}, deleted |-> {}]
    /\ EvalIdle /\ WatchIdle /\ InjectIdle /\ AtomIdle /\ FixIdle /\ CrumbIdle

\* changes = detect_changes(old_hashes, new_hashes)
CallDetectChanges ==
    /\ ~diffOut.ran
    /\ LET changes == detect_changes(diffOld, diffNew)
       IN  diffOut' = [ran |-> TRUE, added |-> changes.added,
                       modified |-> changes.modified, deleted |-> changes.deleted]
    /\ UNCHANGED <<diffOld, diffNew, notDiff>>

NextDiff == CallDetectChanges

SpecDiff == InitDiff /\ [][NextDiff]_vars

\* C13: detect_changes(old, new) partitions the differences: a path is in
\* added exactly when it is a key of new only, in deleted exactly when it is
\* a key of old only, in modified exactly when it is a key of both with
\* different hashes; no path is in two of the lists; a path that is in
\* neither dict, or in both with the same hash, is in none; and the three
\* lists are empty when old = new.
C13_DetectChangesPartitions ==
    diffOut.ran =>
        /\ \A f \in DiffPaths :
              /\ f \in diffOut.added <=> (f \notin DOMAIN diffOld /\ f \in DOMAIN diffNew)
              /\ f \in diffOut.deleted <=> (f \in DOMAIN diffOld /\ f \notin DOMAIN diffNew)
              /\ f \in diffOut.modified <=>
                     (f \in DOMAIN diffOld /\ f \in DOMAIN diffNew /\ diffOld[f] # diffNew[f])
        /\ diffOut.added \cup diffOut.modified \cup diffOut.deleted \subseteq DiffPaths
        /\ diffOut.added \cap diffOut.modified = {}
        /\ diffOut.added \cap diffOut.deleted = {}
        /\ diffOut.modified \cap diffOut.deleted = {}
        /\ diffOld = diffNew =>
               diffOut.added = {} /\ diffOut.modified = {} /\ diffOut.deleted = {}

\* a call whose three lists are all non-empty
C13_Witness ==
    /\ diffOut.ran
    /\ diffOut.added # {}
    /\ diffOut.modified # {}
    /\ diffOut.deleted # {}

(***************************************************************************)
(* process_all_files of tools/add_breadcrumbs.py                           *)
(*                                                                         *)
(* A file is its content, its place below content/tic, whether it is       *)
(* content/tic/index.html, and whether reading it (read_text: the file is  *)
(* not UTF-8) or writing it (write_text: the file is read-only) raises.    *)
(***************************************************************************)

\* number of HTML files below content/tic
MaxFiles == 2

NoGradeLoc == [grade |-> FALSE, module |-> FALSE, number |-> TRUE]

RootIndex ==
    [content |-> <<"text">>, where |-> NoGradeLoc, root_index |-> TRUE, raises |-> "none"]

CrumbFiles ==
    [content : {c \in Pages("add_breadcrumbs") : Len(c) <= 1},
     where : {LessonLoc, NoGradeLoc}, root_index : {FALSE},
     raises : {"none", "read", "write"}]
        \cup {RootIndex}

\* add_breadcrumb_to_file with its try / except: the value it returns,
\* whether an exception was caught, whether the content of the file is (in a
\* dry run: would be) changed
add_breadcrumb_try(f, dry_run) ==
    IF f.raises = "read"
    THEN [result |-> FALSE, raised |-> TRUE, changed |-> FALSE, content |-> f.content]
    ELSE LET o == add_breadcrumb_to_file(f.content, f.where, dry_run)
         IN  IF o.write /\ f.raises = "write"
             THEN [result |-> FALSE, raised |-> TRUE, changed |-> FALSE,
                   content |-> f.content]
             ELSE [result |-> o.count = "updated", raised |-> FALSE,
                   changed |-> o.content # f.content,
                   content |-> IF o.write THEN o.content ELSE f.content]

InitCrumb ==
    /\ bcFiles \in UNION {[1..n -> CrumbFiles] : n \in 0..MaxFiles}
    /\ Cardinality({i \in DOMAIN bcFiles : bcFiles[i].root_index}) <= 1
    /\ bcDry \in BOOLEAN
    /\ bcPos = 0
    /\ bcSummary = [printed |-> FALSE, updated |-> 0, skipped |-> 0, errors |-> 0]
    /\ bcTrace = <<>>
    /\ EvalIdle /\ WatchIdle /\ InjectIdle /\ AtomIdle /\ FixIdle /\ DiffIdle

\* `if html_path == CONTENT_DIR / "index.html": continue`
SkipRootIndex ==
    /\ bcPos < Len(bcFiles)
    /\ bcFiles[bcPos + 1].root_index
    /\ bcPos' = bcPos + 1
    /\ bcTrace' = Append(bcTrace, [processed |-> FALSE, raised |-> FALSE, changed |-> FALSE])
    /\ UNCHANGED <<bcFiles, bcDry, bcSummary, notCrumb>>

\* one pass of the loop of process_all_files
ProcessHtml ==
    /\ bcPos < Len(bcFiles)
    /\ ~bcFiles[bcPos + 1].root_index
    /\ LET r == add_breadcrumb_try(bcFiles[bcPos + 1], bcDry)
       IN  /\ bcFiles' = [bcFiles EXCEPT ![bcPos + 1].content = r.content]
           /\ bcSummary' =
                  IF r.result = TRUE
                  THEN [bcSummary EXCEPT !.updated = @ + 1]
                  ELSE IF r.result = FALSE
                  THEN [bcSummary EXCEPT !.skipped = @ + 1]
                  ELSE [bcSummary EXCEPT !.errors = @ + 1]
           /\ bcTrace' = Append(bcTrace, [processed |-> TRUE, raised |-> r.raised,
                                          changed |-> r.changed])
    /\ bcPos' = bcPos + 1
    /\ UNCHANGED <<bcDry, notCrumb>>

\* print(f"Summary: ...")
PrintSummary ==
    /\ bcPos = Len(bcFiles)
    /\ ~bcSummary.printed
    /\ bcSummary' = [bcSummary EXCEPT !.printed = TRUE]
    /\ UNCHANGED <<bcFiles, bcDry, bcPos, bcTrace, notCrumb>>

NextCrumb ==
    \/ SkipRootIndex
    \/ ProcessHtml
    \/ PrintSummary

SpecCrumb == InitCrumb /\ [][NextCrumb]_vars

\* the files of the run that were processed, changed, failed
Processed == {i \in DOMAIN bcTrace : bcTrace[i].processed}

Changed == {i \in DOMAIN bcTrace : bcTrace[i].changed}

Failed == {i \in DOMAIN bcTrace : bcTrace[i].raised}

\* C15: the summary that add_breadcrumbs.py prints is faithful: updated +
\* skipped + errors is the number of files processed, updated is the number
\* of files whose content was changed (in a dry run: would be changed), and
\* errors is the number of files whose processing failed with an exception.
C15_SummaryFaithful ==
    bcSummary.printed =>
        /\ bcSummary.updated + bcSummary.skipped + bcSummary.errors = Cardinality(Processed)
        /\ bcSummary.updated = Cardinality(Changed)
        /\ bcSummary.errors = Cardinality(Failed)

\* the part of C15 that holds: the counters add up to the number of files
\* processed and updated counts the files changed; a file that failed is
\* counted as skipped
FailuresCountedAsSkipped ==
    bcSummary.printed =>
        /\ bcSummary.updated + bcSummary.skipped + bcSummary.errors = Cardinality(Processed)
        /\ bcSummary.updated = Cardinality(Changed)
        /\ bcSummary.errors = 0
        /\ bcSummary.skipped = Cardinality(Processed \ Changed)

====
